---- MODULE Spec2Model ----
(***************************************************************************)
(* Model of pmevo_eval/eval.py: the operand rewrite rules (_OperandRe),    *)
(* the two canonicalization pipelines and PmevoMapping (constructor and    *)
(* map_instructions).                                                      *)
(*                                                                         *)
(* A Python str is a sequence of one-character strings.  Positions handed  *)
(* between the operators that model str.find and slicing are Python's      *)
(* 0-based indexes (with -1 for "not found"); the regular-expression       *)
(* matchers work on the 1-based positions of the sequence.                 *)
(***************************************************************************)
EXTENDS Integers, Sequences, FiniteSets, TLC

VARIABLES
    \* ---- PmevoMapping instance and its environment ----
    arch_name,          \* argument of PmevoMapping.__init__
    assertsOn,          \* FALSE when the interpreter strips assert statements (-O)
    isFile,             \* the mapping file: "yes", "no", "gone" (removed before open)
    phase,              \* "new" (before __init__), "ready", "raised" (by __init__), "hung"
    exn,                \* exception that ended the last operation ("none" if it returned)
    fsAccess,           \* number of filesystem calls (is_file, open) made so far
    pmevo_iset,         \* self.mapping.arch.insn_list(): sequence of reference names
    palmed_to_pmevo,    \* self._palmed_to_pmevo: [isNone, map]
    calls,              \* number of map_instructions calls made
    builds,             \* number of times canonical_to_pmevo was built
    arg,                \* palmed_iset of the last call
    ret,                \* how the last call ended: [kind, map], kind "value" or "raised"
    firstRet,           \* how the first call ended
    index,              \* canonical_to_pmevo as the last build left it
    keys,               \* `canonical` of each instruction of the last computing call
    \* ---- one _OperandRe.apply call, statement by statement ----
    rule,               \* self: the rule being applied
    val,                \* argument of apply
    out,                \* local variable out
    pc,                 \* "idle", "start" (line 30), "loop" (line 32), "done", "error"
    iters,              \* iterations of the while loop executed
    \* ---- repeated canonicalization of one operand ----
    rules,              \* name of the rule set: "pmevo" or "palmed"
    op,                 \* [kind, str]: the operand after `passes` folds
    prevOp,             \* the operand before the last fold
    passes              \* number of folds applied

vars == <<arch_name, assertsOn, isFile, phase, exn, fsAccess, pmevo_iset,
          palmed_to_pmevo, calls, builds, arg, ret, firstRet, index, keys,
          rule, val, out, pc, iters, rules, op, prevOp, passes>>

facadeVars == <<arch_name, assertsOn, isFile, phase, exn, fsAccess, pmevo_iset,
                palmed_to_pmevo, calls, builds, arg, ret, firstRet, index, keys>>
applyVars == <<rule, val, out, pc, iters>>
foldVars == <<rules, op, prevOp, passes>>

-----------------------------------------------------------------------------
(* Character classes *)

Digit == {"0", "1", "2", "3", "4", "5", "6", "7", "8", "9"}

Upper == {"A", "B", "C", "D", "E", "F", "G", "H", "I", "J", "K", "L", "M",
          "N", "O", "P", "Q", "R", "S", "T", "U", "V", "W", "X", "Y", "Z"}

Whitespace == {" ", "\t", "\n", "\r"}

IsDigit(c) == c \in Digit
IsNonDigit(c) == c \notin Digit
IsUpper(c) == c \in Upper
IsNotRBracket(c) == c # "]"
IsDigitOrX(c) == c \in Digit \cup {"x"}

-----------------------------------------------------------------------------
(* Python str operations *)

Max(S) == CHOOSE m \in S : \A n \in S : n <= m
Min(S) == CHOOSE m \in S : \A n \in S : m <= n

\* s[i..j] of the sequence, empty when j < i
Sub1(s, i, j) == IF j < i THEN <<>> ELSE SubSeq(s, i, j)

\* lit occurs in s at 1-based position i
IsAt(s, i, lit) ==
    /\ i >= 1
    /\ i + Len(lit) - 1 <= Len(s)
    /\ \A k \in 1..Len(lit) : s[i + k - 1] = lit[k]

\* s.find(lit, start): lowest 0-based index >= start where lit occurs, or -1
Find(s, lit, start) ==
    LET hits == {i \in start..(Len(s) - Len(lit)) : IsAt(s, i + 1, lit)}
    IN  IF hits = {} THEN -1 ELSE Min(hits)

\* a slice bound as Python clamps it: negative bounds count from the end
Clamp(s, i) ==
    IF i < 0 THEN (IF Len(s) + i < 0 THEN 0 ELSE Len(s) + i)
    ELSE IF i > Len(s) THEN Len(s) ELSE i

\* s[a:b]
Slice(s, a, b) == Sub1(s, Clamp(s, a) + 1, Clamp(s, b))

\* s[a:]
SliceFrom(s, a) == Sub1(s, Clamp(s, a) + 1, Len(s))

\* s.strip(chars) for a set of characters
StripChars(s, chars) ==
    LET keep == {i \in 1..Len(s) : s[i] \notin chars}
    IN  IF keep = {} THEN <<>> ELSE SubSeq(s, Min(keep), Max(keep))

\* s.split(sep) for a one-character separator: always at least one piece
RECURSIVE SplitAll(_, _)
SplitAll(s, sep) ==
    LET k == Find(s, <<sep>>, 0)
    IN  IF k < 0 THEN <<s>>
        ELSE <<Slice(s, 0, k)>> \o SplitAll(SliceFrom(s, k + 1), sep)

\* s.split(sep, 1): one piece when sep does not occur, else two
SplitOnce(s, sep) ==
    LET k == Find(s, <<sep>>, 0)
    IN  IF k < 0 THEN <<s>> ELSE <<Slice(s, 0, k), SliceFrom(s, k + 1)>>

DigitVal(c) ==
    CASE c = "0" -> 0 [] c = "1" -> 1 [] c = "2" -> 2 [] c = "3" -> 3
      [] c = "4" -> 4 [] c = "5" -> 5 [] c = "6" -> 6 [] c = "7" -> 7
      [] c = "8" -> 8 [] c = "9" -> 9

DigitChr(d) ==
    CASE d = 0 -> "0" [] d = 1 -> "1" [] d = 2 -> "2" [] d = 3 -> "3"
      [] d = 4 -> "4" [] d = 5 -> "5" [] d = 6 -> "6" [] d = 7 -> "7"
      [] d = 8 -> "8" [] d = 9 -> "9"

\* the literals int() accepts among strings without a sign: decimal digits,
\* optionally grouped by single underscores, surrounded by whitespace
IntOk(t) ==
    LET u == StripChars(t, Whitespace)
    IN  /\ u # <<>>
        /\ \A i \in 1..Len(u) : u[i] \in Digit \cup {"_"}
        /\ u[1] # "_" /\ u[Len(u)] # "_"
        /\ \A i \in 1..(Len(u) - 1) : ~(u[i] = "_" /\ u[i + 1] = "_")

RECURSIVE IntDigits(_, _)
IntDigits(u, acc) ==
    IF u = <<>> THEN acc
    ELSE IF Head(u) = "_" THEN IntDigits(Tail(u), acc)
    ELSE IntDigits(Tail(u), 10 * acc + DigitVal(Head(u)))

\* int(t), for t with IntOk(t)
ParseInt(t) == IntDigits(StripChars(t, Whitespace), 0)

\* str(n) for n >= 0
RECURSIVE Str(_)
Str(n) == IF n < 10 THEN <<DigitChr(n)>> ELSE Str(n \div 10) \o <<DigitChr(n % 10)>>

-----------------------------------------------------------------------------
(* Regular expressions of the rule tables.                                 *)
(* A matcher answers [end, group] for an attempt at 1-based position i:    *)
(* end is the position after the match (0 when the pattern does not match  *)
(* there) and group is the text of capture group 1.  Quantifiers are       *)
(* greedy with backtracking: of the feasible lengths the longest one for   *)
(* the first quantifier is taken, then the longest for the second.         *)

NoMatch == [end |-> 0, group |-> <<>>]

AllIn(s, i, n, P(_)) == \A k \in i..(i + n - 1) : k <= Len(s) /\ P(s[k])

\* `$`: at the end of the string, or just before a newline that ends it
AtEnd(s, j) == j = Len(s) + 1 \/ (j = Len(s) /\ s[j] = "\n")

IsNotNewline(c) == c # "\n"

Greedy(F) ==
    LET a == Max({p[1] : p \in F})
    IN  <<a, Max({p[2] : p \in {q \in F : q[1] = a}})>>

\* \(\(REG:[A-Z]+:<lit>:([0-9]+)\)\)
MatchReg(s, i, lit) ==
    LET head == <<"(", "(", "R", "E", "G", ":">>
        a == i + Len(head)
        mid == <<":">> \o lit \o <<":">>
        F == {p \in (1..Len(s)) \X (1..Len(s)) :
                /\ AllIn(s, a, p[1], IsUpper)
                /\ IsAt(s, a + p[1], mid)
                /\ AllIn(s, a + p[1] + Len(mid), p[2], IsDigit)
                /\ IsAt(s, a + p[1] + Len(mid) + p[2], <<")", ")">>)}
    IN  IF ~IsAt(s, i, head) \/ F = {} THEN NoMatch
        ELSE LET g == Greedy(F)
                 b == a + g[1] + Len(mid)
             IN  [end |-> b + g[2] + 2, group |-> SubSeq(s, b, b + g[2] - 1)]

\* \(\(<lit>:([0-9]+)\)\)
MatchTag(s, i, lit) ==
    LET head == <<"(", "(">> \o lit \o <<":">>
        a == i + Len(head)
        F == {d \in 1..Len(s) :
                /\ AllIn(s, a, d, IsDigit)
                /\ IsAt(s, a + d, <<")", ")">>)}
    IN  IF ~IsAt(s, i, head) \/ F = {} THEN NoMatch
        ELSE [end |-> a + Max(F) + 2, group |-> SubSeq(s, a, a + Max(F) - 1)]

\* <lit>[^\]]+\]     (lit ends with the opening bracket)
MatchPtr(s, i, lit) ==
    LET a == i + Len(lit)
        F == {n \in 1..Len(s) :
                /\ AllIn(s, a, n, IsNotRBracket)
                /\ IsAt(s, a + n, <<"]">>)}
    IN  IF ~IsAt(s, i, lit) \/ F = {} THEN NoMatch
        ELSE [end |-> a + Max(F) + 1, group |-> <<>>]

\* MEM\d+\D+([0-9x]+)$
MatchMem(s, i) ==
    LET head == <<"M", "E", "M">>
        a == i + Len(head)
        F == {p \in (1..Len(s)) \X (1..Len(s)) :
                /\ AllIn(s, a, p[1], IsDigit)
                /\ AllIn(s, a + p[1], p[2], IsNonDigit)
                /\ \E g \in 1..Len(s) :
                      /\ AllIn(s, a + p[1] + p[2], g, IsDigitOrX)
                      /\ AtEnd(s, a + p[1] + p[2] + g)}
    IN  IF ~IsAt(s, i, head) \/ F = {} THEN NoMatch
        ELSE LET p == Greedy(F)
                 b == a + p[1] + p[2]
                 g == Max({n \in 1..Len(s) : AllIn(s, b, n, IsDigitOrX) /\ AtEnd(s, b + n)})
             IN  [end |-> b + g, group |-> SubSeq(s, b, b + g - 1)]

\* <lit>(\d+).*$
MatchTail(s, i, lit) ==
    LET a == i + Len(lit)
        F == {p \in (1..Len(s)) \X (0..Len(s)) :
                /\ AllIn(s, a, p[1], IsDigit)
                /\ AllIn(s, a + p[1], p[2], IsNotNewline)
                /\ AtEnd(s, a + p[1] + p[2])}
    IN  IF ~IsAt(s, i, lit) \/ F = {} THEN NoMatch
        ELSE LET p == Greedy(F)
             IN  [end |-> a + p[1] + p[2], group |-> SubSeq(s, a, a + p[1] - 1)]

\* IMM\D+([0-9]+)$
MatchImm(s, i) ==
    LET head == <<"I", "M", "M">>
        a == i + Len(head)
        F == {p \in (1..Len(s)) \X (1..Len(s)) :
                /\ AllIn(s, a, p[1], IsNonDigit)
                /\ AllIn(s, a + p[1], p[2], IsDigit)
                /\ AtEnd(s, a + p[1] + p[2])}
    IN  IF ~IsAt(s, i, head) \/ F = {} THEN NoMatch
        ELSE LET p == Greedy(F)
                 b == a + p[1]
             IN  [end |-> b + p[2], group |-> SubSeq(s, b, b + p[2] - 1)]

\* self.pattern.match at position i, for the rule r = [kind, lit, rep]
MatchAt(r, s, i) ==
    CASE r.kind = "REG" -> MatchReg(s, i, r.lit)
      [] r.kind = "TAG" -> MatchTag(s, i, r.lit)
      [] r.kind = "PTR" -> MatchPtr(s, i, r.lit)
      [] r.kind = "MEM" -> MatchMem(s, i)
      [] r.kind = "TAIL" -> MatchTail(s, i, r.lit)
      [] r.kind = "IMM" -> MatchImm(s, i)

\* the replacement template with the back-reference \1 (the item "\\1") resolved
RECURSIVE Template(_, _)
Template(rep, group) ==
    IF rep = <<>> THEN <<>>
    ELSE (IF Head(rep) = "\\1" THEN group ELSE <<Head(rep)>>) \o Template(Tail(rep), group)

\* self.pattern.sub(self.replacement, val): every non-overlapping match, leftmost
\* first, is replaced (no pattern of the tables matches the empty string).
\* SubStep continues the scan at position i, given the match attempt m made there.
RECURSIVE SubFrom(_, _, _)
SubStep(r, s, i, m) ==
    IF m.end > 0 THEN Template(r.rep, m.group) \o SubFrom(r, s, m.end)
    ELSE <<s[i]>> \o SubFrom(r, s, i + 1)

SubFrom(r, s, i) == IF i > Len(s) THEN <<>> ELSE SubStep(r, s, i, MatchAt(r, s, i))

PatternSub(r, s) == SubFrom(r, s, 1)

-----------------------------------------------------------------------------
(* The rule tables: one record per _OperandRe(pattern, replacement).  kind *)
(* and lit select the pattern (see MatchAt), rep is the replacement.       *)

pmevo_operands_re ==
    <<[kind |-> "REG", lit |-> <<"G">>,
       rep |-> <<"G", "P", "R", "\\1">>],
      [kind |-> "REG", lit |-> <<"V">>,
       rep |-> <<"V", "R", "\\1">>],
      [kind |-> "TAG", lit |-> <<"I", "M", "M">>,
       rep |-> <<"I", "M", "M", "\\1">>],
      [kind |-> "TAG", lit |-> <<"D", "I", "V">>,
       rep |-> <<"G", "P", "R", "\\1">>],
      [kind |-> "PTR", lit |-> <<"b", "y", "t", "e", "_", "p", "t", "r", "_", "[">>,
       rep |-> <<"M", "E", "M", "8">>],
      [kind |-> "PTR", lit |-> <<"d", "w", "o", "r", "d", "_", "p", "t", "r", "_", "[">>,
       rep |-> <<"M", "E", "M", "3", "2">>],
      [kind |-> "PTR", lit |-> <<"q", "w", "o", "r", "d", "_", "p", "t", "r", "_", "[">>,
       rep |-> <<"M", "E", "M", "6", "4">>],
      [kind |-> "PTR", lit |-> <<"x", "m", "m", "w", "o", "r", "d", "_", "p", "t", "r", "_", "[">>,
       rep |-> <<"M", "E", "M", "1", "2", "8">>],
      [kind |-> "PTR", lit |-> <<"y", "m", "m", "w", "o", "r", "d", "_", "p", "t", "r", "_", "[">>,
       rep |-> <<"M", "E", "M", "2", "5", "6">>],
      [kind |-> "PTR", lit |-> <<"[">>,
       rep |-> <<"A", "D", "D", "R", "6", "4">>]>>

palmed_operands_re ==
    <<[kind |-> "MEM", lit |-> <<>>,
       rep |-> <<"M", "E", "M", "<", "E", "V", "A", "L", ":", "\\1", ">">>],
      [kind |-> "TAIL", lit |-> <<"G", "P", "R">>,
       rep |-> <<"G", "P", "R", "\\1">>],
      [kind |-> "TAIL", lit |-> <<"A", "D", "D", "R">>,
       rep |-> <<"A", "D", "D", "R", "\\1">>],
      [kind |-> "TAIL", lit |-> <<"V", "R">>,
       rep |-> <<"V", "R", "\\1">>],
      [kind |-> "IMM", lit |-> <<>>,
       rep |-> <<"I", "M", "M", "\\1">>]>>

RuleSet(name) == IF name = "pmevo" THEN pmevo_operands_re ELSE palmed_operands_re

-----------------------------------------------------------------------------
(* _OperandRe.apply *)

EvalMarker == <<"<", "E", "V", "A", "L", ":">>

\* a variant of Product that keeps the first factor only
ProductMutant(nums) == nums[1]

RECURSIVE Product(_)
Product(nums) == IF Len(nums) = 1 THEN nums[1] ELSE nums[1] * Product(Tail(nums))

\* One pass through the body of `while True:` (lines 33-40) for the current out.
\*   break: no marker is left;  error: int() raises ValueError;
\*   cont:  out is rewritten; closed tells whether find(">") found a '>'.
\* lines 38-40, for tokens = eval_expr.strip().split("x")
EvalTokens(o, next_eval, eval_end, tokens) ==
    IF \E k \in 1..Len(tokens) : ~IntOk(tokens[k])
    THEN [kind |-> "error", out |-> o, closed |-> eval_end >= 0]
    ELSE [kind |-> "cont",
          out |-> Slice(o, 0, next_eval)
                    \o Str(Product([k \in 1..Len(tokens) |-> ParseInt(tokens[k])]))
                    \o SliceFrom(o, eval_end + 1),
          closed |-> eval_end >= 0]

\* line 37: eval_expr = out[next_eval + 6 : eval_end]
EvalSpan(o, next_eval, eval_end) ==
    EvalTokens(o, next_eval, eval_end,
               SplitAll(StripChars(Slice(o, next_eval + 6, eval_end), Whitespace), "x"))

\* lines 34-36
EvalAt(o, next_eval) ==
    IF next_eval < 0 THEN [kind |-> "break", out |-> o, closed |-> TRUE]
    ELSE EvalSpan(o, next_eval, Find(o, <<">">>, next_eval))

\* line 33
EvalStep(o) == EvalAt(o, Find(o, EvalMarker, 0))

\* The while loop run to its end.  An iteration whose marker has no closing
\* '>' and whose expression parses puts the whole of out after the number
\* (out[eval_end + 1:] is out[0:]), so the same marker, the same expression
\* and the same missing '>' come back in every later iteration: the loop
\* never ends ("hang").
RECURSIVE EvalLoop(_)
EvalLoopOn(o, st) ==
    CASE st.kind = "break" -> [kind |-> "ok", str |-> o]
      [] st.kind = "error" -> [kind |-> "ValueError", str |-> <<>>]
      [] st.kind = "cont" ->
            IF st.closed THEN EvalLoop(st.out) ELSE [kind |-> "hang", str |-> <<>>]

EvalLoop(o) == EvalLoopOn(o, EvalStep(o))

\* op_re.apply(val): [kind |-> "ok", str |-> result], or how the call ends otherwise
Apply(r, v) == EvalLoop(PatternSub(r, v))

-----------------------------------------------------------------------------
(* Canonicalization (local functions of map_instructions) *)

\* for op_re in regexps: op = op_re.apply(op)
\* FoldNext continues after rule k answered a
RECURSIVE FoldRules(_, _, _)
FoldNext(regexps, k, a) == IF a.kind = "ok" THEN FoldRules(regexps, k + 1, a.str) ELSE a

FoldRules(regexps, k, o) ==
    IF k > Len(regexps) THEN [kind |-> "ok", str |-> o]
    ELSE FoldNext(regexps, k, Apply(regexps[k], o))

Fold(regexps, o) == FoldRules(regexps, 1, o)

\* canonicalize_with: [kind |-> "ok", key |-> <<mnemonic, ops>>], or the
\* exception / hang of the first operand whose rewriting does not return.
\* CanonOp continues after the first operand left was rewritten to f.
RECURSIVE CanonOps(_, _, _, _)
CanonOp(mnemonic, ops_orig, regexps, ops, f) ==
    IF f.kind = "ok"
    THEN CanonOps(mnemonic, Tail(ops_orig), regexps, Append(ops, f.str))
    ELSE [kind |-> f.kind, key |-> <<>>]

CanonOps(mnemonic, ops_orig, regexps, ops) ==
    IF ops_orig = <<>> THEN [kind |-> "ok", key |-> <<mnemonic, ops>>]
    ELSE CanonOp(mnemonic, ops_orig, regexps, ops, Fold(regexps, Head(ops_orig)))

canonicalize_with(mnemonic, ops_orig, regexps) == CanonOps(mnemonic, ops_orig, regexps, <<>>)

\* a variant of PmevoOps that splits at "_" instead of ","
PmevoOpsMutant(ops_str) == SplitAll(StripChars(ops_str, Whitespace), "_")

\* ops_orig of canonicalize_pmevo_instr: ops_str.strip().split(","), each piece
\* stripped of underscores
PmevoOps(ops_str) ==
    LET pieces == SplitAll(StripChars(ops_str, Whitespace), ",")
    IN  [k \in 1..Len(pieces) |-> StripChars(pieces[k], {"_"})]

\* ops_orig of canonicalize_palmed_instr: ops_str.split("_")
PalmedOps(ops_str) == SplitAll(ops_str, "_")

\* lines 114-119 for mnemonic_split = name.split("_", 1); unpacking a
\* one-element list raises ValueError: the except branch, with no operands
PmevoKey(mnemonic_split) ==
    canonicalize_with(mnemonic_split[1],
                      IF Len(mnemonic_split) = 2 THEN PmevoOps(mnemonic_split[2]) ELSE <<>>,
                      pmevo_operands_re)

canonicalize_pmevo_instr(name) == PmevoKey(SplitOnce(name, "_"))

\* a variant of PalmedKey that splits the missing operand string as well
PalmedKeyMutant(mnemonic_split) ==
    canonicalize_with(mnemonic_split[1],
                      IF Len(mnemonic_split) = 2 THEN PalmedOps(mnemonic_split[2])
                      ELSE PalmedOps(<<>>),
                      palmed_operands_re)

\* lines 123-128
PalmedKey(mnemonic_split) ==
    canonicalize_with(mnemonic_split[1],
                      IF Len(mnemonic_split) = 2 THEN PalmedOps(mnemonic_split[2]) ELSE <<>>,
                      palmed_operands_re)

canonicalize_palmed_instr(name) == PalmedKey(SplitOnce(name, "_"))

-----------------------------------------------------------------------------
(* Inputs: instruction names *)

\* MOV_((REG:GPR:G:8))_((IMM:32))   (reference name of the round-trip example)
Ref_MOV_underscore ==
    <<"M", "O", "V", "_", "(", "(", "R", "E", "G", ":", "G", "P", "R", ":",
      "G", ":", "8", ")", ")", "_", "(", "(", "I", "M", "M", ":", "3", "2",
      ")", ")">>

\* MOV_((REG:GPR:G:8)),_((IMM:32))   (the same instruction with comma-separated operands)
Ref_MOV_comma ==
    <<"M", "O", "V", "_", "(", "(", "R", "E", "G", ":", "G", "P", "R", ":",
      "G", ":", "8", ")", ")", ",", "_", "(", "(", "I", "M", "M", ":", "3",
      "2", ")", ")">>

\* MOV_((DIV:8)),_((IMM:32))   (canonicalizes to the key of Ref_MOV_comma)
Ref_MOV_div ==
    <<"M", "O", "V", "_", "(", "(", "D", "I", "V", ":", "8", ")", ")", ",",
      "_", "(", "(", "I", "M", "M", ":", "3", "2", ")", ")">>

\* NOP   (no operands)
Ref_NOP ==
    <<"N", "O", "P">>

\* LD_qword_ptr_[((REG:R:G:64))]   (a memory operand)
Ref_LD ==
    <<"L", "D", "_", "q", "w", "o", "r", "d", "_", "p", "t", "r", "_", "[",
      "(", "(", "R", "E", "G", ":", "R", ":", "G", ":", "6", "4", ")", ")",
      "]">>

\* MOV_GPR8extra_IMM32suffix   (target name of the round-trip example)
Palmed_MOV_suffix ==
    <<"M", "O", "V", "_", "G", "P", "R", "8", "e", "x", "t", "r", "a", "_",
      "I", "M", "M", "3", "2", "s", "u", "f", "f", "i", "x">>

\* MOV_GPR8extra_IMMsuffix32   (digits at the end of the IMM operand)
Palmed_MOV_imm ==
    <<"M", "O", "V", "_", "G", "P", "R", "8", "e", "x", "t", "r", "a", "_",
      "I", "M", "M", "s", "u", "f", "f", "i", "x", "3", "2">>

\* NOP   (no operands)
Palmed_NOP ==
    <<"N", "O", "P">>

\* LD_MEM64ax   (the MEM rule captures "x": int("") raises ValueError)
Palmed_LD_bad ==
    <<"L", "D", "_", "M", "E", "M", "6", "4", "a", "x">>

\* X_<EVAL:12   (a marker without closing '>')
Palmed_unclosed ==
    <<"X", "_", "<", "E", "V", "A", "L", ":", "1", "2">>

\* The reference instruction lists a mapping file may hold
PmevoIsets ==
    { <<Ref_MOV_underscore, Ref_NOP>>,
      <<Ref_MOV_comma, Ref_MOV_div, Ref_NOP, Ref_LD>>,
      <<Ref_MOV_div, Ref_LD, Ref_MOV_comma>> }

\* Target instructions are opaque objects with a name(); two of them share a name
InsnA == [id |-> "a", name |-> Palmed_MOV_suffix]
InsnB == [id |-> "b", name |-> Palmed_MOV_imm]
InsnC == [id |-> "c", name |-> Palmed_MOV_imm]
InsnD == [id |-> "d", name |-> Palmed_NOP]
InsnF == [id |-> "f", name |-> Palmed_LD_bad]
InsnG == [id |-> "g", name |-> Palmed_unclosed]

PalmedInsns == {InsnA, InsnB, InsnC, InsnD, InsnF, InsnG}

MaxList == 1
MaxCalls == 2

\* The lists map_instructions is called with: every list of at most MaxList
\* instructions, and some longer ones (a miss next to a hit, two objects with
\* one name, an instruction twice, a failing instruction after a good one)
PalmedLists ==
    UNION {[1..n -> PalmedInsns] : n \in 0..MaxList}
        \cup { <<InsnA, InsnB>>, <<InsnB, InsnC>>, <<InsnD, InsnA, InsnB>>,
               <<InsnB, InsnB>>, <<InsnD, InsnF>> }

\* architecture identifiers
ArchNames ==
    { <<"S", "K", "L">>,
      <<"a", "/", "b">>,
      <<".", ".">> }

-----------------------------------------------------------------------------
(* PmevoMapping *)

\* "/" in arch_name or ".." in arch_name      (line 72)
Unsafe(name) == Find(name, <<"/">>, 0) >= 0 \/ Find(name, <<".", ".">>, 0) >= 0

NoneVal == [isNone |-> TRUE, map |-> <<>>]
Some(m) == [isNone |-> FALSE, map |-> m]

\* the value None a target instruction is mapped to on a miss
NoneInsn == [pos |-> 0, name |-> <<>>]

\* the Insn at position i of insn_list()
RefInsn(iset, i) == [pos |-> i, name |-> iset[i]]

\* `if self._palmed_to_pmevo:` : None and the empty dict are both false
Truthy(c) == ~c.isNone /\ DOMAIN c.map # {}

\* d[k] = v
Put(d, k, v) == [x \in DOMAIN d \cup {k} |-> IF x = k THEN v ELSE d[x]]

\* The canonicalizations are pure functions of the name: they are tabulated
\* once for the names that occur in the inputs.
RefNames == UNION {{iset[i] : i \in 1..Len(iset)} : iset \in PmevoIsets}
PalmedNames == {t.name : t \in PalmedInsns}
CanonPmevo == [n \in RefNames |-> canonicalize_pmevo_instr(n)]
CanonPalmed == [n \in PalmedNames |-> canonicalize_palmed_instr(n)]

RECURSIVE BuildIndex(_, _, _)
\* a variant of IndexPut that keeps the first instruction stored under a key
IndexPutMutant(iset, i, idx, c) ==
    IF c.kind = "ok"
    THEN BuildIndex(iset, i + 1,
                    IF c.key \in DOMAIN idx THEN idx ELSE Put(idx, c.key, RefInsn(iset, i)))
    ELSE [kind |-> c.kind, map |-> <<>>]

\* for insn in pmevo_iset: canonical_to_pmevo[canonicalize_pmevo_instr(insn)] = insn
\* IndexPut stores instruction i under its canonicalization c
IndexPut(iset, i, idx, c) ==
    IF c.kind = "ok" THEN BuildIndex(iset, i + 1, Put(idx, c.key, RefInsn(iset, i)))
    ELSE [kind |-> c.kind, map |-> <<>>]

BuildIndex(iset, i, idx) ==
    IF i > Len(iset) THEN [kind |-> "ok", map |-> idx]
    ELSE IndexPut(iset, i, idx, CanonPmevo[iset[i]])

\* a variant of Lookup that finds nothing
LookupMutant(idx, canonical) == NoneInsn

\* the body of `for insn in palmed_iset:` for one canonical key (lines 137-141)
Lookup(idx, canonical) ==
    IF canonical \notin DOMAIN idx THEN NoneInsn ELSE idx[canonical]

\* for insn in palmed_iset: ...   answers [kind, map, keys]: insn_mapping and,
\* per instruction, the canonical key that was looked up.
\* MapPut handles instruction k, whose canonicalization is c.
RECURSIVE MapLoop(_, _, _, _, _)
MapPut(L, k, idx, m, cs, c) ==
    IF c.kind = "ok"
    THEN MapLoop(L, k + 1, idx, Put(m, L[k], Lookup(idx, c.key)), Put(cs, L[k], c.key))
    ELSE [kind |-> c.kind, map |-> <<>>, keys |-> <<>>]

MapLoop(L, k, idx, m, cs) ==
    IF k > Len(L) THEN [kind |-> "ok", map |-> m, keys |-> cs]
    ELSE MapPut(L, k, idx, m, cs, CanonPalmed[L[k].name])

\* lines 102-147 of map_instructions, run when nothing is cached: b is the
\* outcome of building the index
ComputeWith(L, b, r) ==
    IF b.kind = "ok"
    THEN [kind |-> r.kind, index |-> b.map, map |-> r.map, keys |-> r.keys]
    ELSE [kind |-> b.kind, index |-> <<>>, map |-> <<>>, keys |-> <<>>]

ComputeOn(L, b) ==
    ComputeWith(L, b, IF b.kind = "ok" THEN MapLoop(L, 1, b.map, <<>>, <<>>) ELSE b)

Compute(iset, L) == ComputeOn(L, BuildIndex(iset, 1, <<>>))

-----------------------------------------------------------------------------
(* PmevoMapping.__init__ *)

NoCall == [kind |-> "nocall", map |-> <<>>]

ApplyIdle ==
    /\ rule = pmevo_operands_re[1] /\ val = <<>> /\ out = <<>>
    /\ pc = "idle" /\ iters = 0

FoldIdle ==
    /\ rules = "pmevo" /\ passes = 0
    /\ op = [kind |-> "ok", str |-> <<>>] /\ prevOp = [kind |-> "ok", str |-> <<>>]

FacadeIdle ==
    /\ arch_name = <<"S", "K", "L">> /\ assertsOn = TRUE /\ isFile = "yes"
    /\ phase = "idle" /\ exn = "none" /\ fsAccess = 0 /\ pmevo_iset = <<>>
    /\ palmed_to_pmevo = NoneVal /\ calls = 0 /\ builds = 0 /\ arg = <<>>
    /\ ret = NoCall /\ firstRet = NoCall /\ index = <<>> /\ keys = <<>>

\* Before the constructor runs: its argument, the interpreter mode and the
\* data directory (whether the file exists, and what it holds) are chosen.
Init ==
    /\ arch_name \in ArchNames
    /\ assertsOn \in BOOLEAN
    /\ isFile \in {"yes", "no", "gone"}
    /\ pmevo_iset \in PmevoIsets
    /\ phase = "new" /\ exn = "none" /\ fsAccess = 0
    /\ palmed_to_pmevo = NoneVal /\ calls = 0 /\ builds = 0 /\ arg = <<>>
    /\ ret = NoCall /\ firstRet = NoCall /\ index = <<>> /\ keys = <<>>
    /\ ApplyIdle /\ FoldIdle

\* line 72: the assert statement fails
ConstructAssertFails ==
    /\ phase = "new"
    /\ assertsOn /\ Unsafe(arch_name)
    /\ phase' = "raised"
    /\ exn' = "AssertionError"
    /\ UNCHANGED <<arch_name, assertsOn, isFile, fsAccess, pmevo_iset, palmed_to_pmevo,
                   calls, builds, arg, ret, firstRet, index, keys>>
    /\ UNCHANGED <<applyVars, foldVars>>

\* lines 74-75: is_file() answers False
ConstructNotFound ==
    /\ phase = "new"
    /\ ~(assertsOn /\ Unsafe(arch_name))
    /\ isFile = "no"
    /\ fsAccess' = fsAccess + 1
    /\ phase' = "raised"
    /\ exn' = "ArchitectureNotFound"
    /\ UNCHANGED <<arch_name, assertsOn, isFile, pmevo_iset, palmed_to_pmevo,
                   calls, builds, arg, ret, firstRet, index, keys>>
    /\ UNCHANGED <<applyVars, foldVars>>

\* lines 78, 82-83: open() raises FileNotFoundError
ConstructOpenFails ==
    /\ phase = "new"
    /\ ~(assertsOn /\ Unsafe(arch_name))
    /\ isFile = "gone"
    /\ fsAccess' = fsAccess + 2
    /\ phase' = "raised"
    /\ exn' = "ArchitectureNotFound"
    /\ UNCHANGED <<arch_name, assertsOn, isFile, pmevo_iset, palmed_to_pmevo,
                   calls, builds, arg, ret, firstRet, index, keys>>
    /\ UNCHANGED <<applyVars, foldVars>>

\* lines 78-85: the mapping is read, self._palmed_to_pmevo = None
ConstructOk ==
    /\ phase = "new"
    /\ ~(assertsOn /\ Unsafe(arch_name))
    /\ isFile = "yes"
    /\ fsAccess' = fsAccess + 2
    /\ phase' = "ready"
    /\ palmed_to_pmevo' = NoneVal
    /\ UNCHANGED <<arch_name, assertsOn, isFile, exn, pmevo_iset,
                   calls, builds, arg, ret, firstRet, index, keys>>
    /\ UNCHANGED <<applyVars, foldVars>>

-----------------------------------------------------------------------------
(* PmevoMapping.map_instructions *)

Called(L, r) ==
    /\ arg' = L
    /\ calls' = calls + 1
    /\ ret' = r
    /\ firstRet' = IF calls = 0 THEN r ELSE firstRet

\* lines 99-100: the cached mapping is returned
MapCached(L) ==
    /\ phase = "ready" /\ calls < MaxCalls
    /\ Truthy(palmed_to_pmevo)
    /\ Called(L, [kind |-> "value", map |-> palmed_to_pmevo.map])
    /\ exn' = "none"
    /\ UNCHANGED <<arch_name, assertsOn, isFile, phase, fsAccess, pmevo_iset,
                   palmed_to_pmevo, builds, index, keys>>
    /\ UNCHANGED <<applyVars, foldVars>>

\* lines 102-150: the mapping is computed, stored and returned
MapCompute(L) ==
    /\ phase = "ready" /\ calls < MaxCalls
    /\ ~Truthy(palmed_to_pmevo)
    /\ \E c \in {Compute(pmevo_iset, L)} :
           /\ c.kind = "ok"
           /\ index' = c.index
           /\ keys' = c.keys
           /\ palmed_to_pmevo' = Some(c.map)
           /\ Called(L, [kind |-> "value", map |-> c.map])
    /\ builds' = builds + 1
    /\ exn' = "none"
    /\ UNCHANGED <<arch_name, assertsOn, isFile, phase, fsAccess, pmevo_iset>>
    /\ UNCHANGED <<applyVars, foldVars>>

\* a canonicalization raises ValueError (line 38): nothing is stored
MapRaises(L) ==
    /\ phase = "ready" /\ calls < MaxCalls
    /\ ~Truthy(palmed_to_pmevo)
    /\ \E c \in {Compute(pmevo_iset, L)} :
           /\ c.kind = "ValueError"
           /\ index' = c.index
    /\ Called(L, [kind |-> "raised", map |-> <<>>])
    /\ builds' = builds + 1
    /\ exn' = "ValueError"
    /\ UNCHANGED <<arch_name, assertsOn, isFile, phase, fsAccess, pmevo_iset,
                   palmed_to_pmevo, keys>>
    /\ UNCHANGED <<applyVars, foldVars>>

\* a canonicalization never leaves the loop of line 32: the call does not return
MapHangs(L) ==
    /\ phase = "ready" /\ calls < MaxCalls
    /\ ~Truthy(palmed_to_pmevo)
    /\ \E c \in {Compute(pmevo_iset, L)} :
           /\ c.kind = "hang"
           /\ index' = c.index
    /\ arg' = L
    /\ calls' = calls + 1
    /\ builds' = builds + 1
    /\ phase' = "hung"
    /\ UNCHANGED <<arch_name, assertsOn, isFile, exn, fsAccess, pmevo_iset,
                   palmed_to_pmevo, ret, firstRet, keys>>
    /\ UNCHANGED <<applyVars, foldVars>>

Next ==
    \/ ConstructAssertFails
    \/ ConstructNotFound
    \/ ConstructOpenFails
    \/ ConstructOk
    \/ \E L \in PalmedLists : MapCached(L)
    \/ \E L \in PalmedLists : MapCompute(L)
    \/ \E L \in PalmedLists : MapRaises(L)
    \/ \E L \in PalmedLists : MapHangs(L)

Spec == Init /\ [][Next]_vars

-----------------------------------------------------------------------------
(* One call of _OperandRe.apply, statement by statement *)

MaxTok == 3
MaxOut == 64

\* all strings made of at most n pieces of T
RECURSIVE TokStrings(_, _)
TokStrings(T, n) ==
    IF n = 0 THEN {<<>>}
    ELSE LET S == TokStrings(T, n - 1)
         IN  S \cup {st[1] \o st[2] : st \in S \X T}

ApplyTokens ==
    { <<"a">>,
      <<">">>,
      <<"<", "E", "V", "A", "L", ":">>,
      <<"<", "E", "V", "A", "L", ":", "7", ">">>,
      <<"<", "E", "V", "A", "L", ":", "2", "x", "3", ">">>,
      <<"<", "E", "V", "A", "L", ":", "3", "2", "x", "4", ">">>,
      <<"M", "E", "M", "6", "4">>,
      <<"2", "x", "3">> }

ApplyInputs == TokStrings(ApplyTokens, MaxTok)

\* the rules apply is run with: two target rules and one reference rule
ApplyRules == {palmed_operands_re[1], palmed_operands_re[4], pmevo_operands_re[10]}

InitApply ==
    /\ rule \in ApplyRules
    /\ val \in ApplyInputs
    /\ out = <<>> /\ pc = "start" /\ iters = 0
    /\ FacadeIdle /\ FoldIdle

\* line 30
ApplySub ==
    /\ pc = "start"
    /\ out' = PatternSub(rule, val)
    /\ pc' = "loop"
    /\ UNCHANGED <<rule, val, iters>>
    /\ UNCHANGED <<facadeVars, foldVars>>

\* lines 33-35, 42: no marker is left, out is returned
LoopBreak ==
    /\ pc = "loop"
    /\ \E st \in {EvalStep(out)} : st.kind = "break"
    /\ pc' = "done"
    /\ UNCHANGED <<rule, val, out, iters>>
    /\ UNCHANGED <<facadeVars, foldVars>>

\* lines 33-39: int() raises ValueError
LoopError ==
    /\ pc = "loop"
    /\ \E st \in {EvalStep(out)} : st.kind = "error"
    /\ pc' = "error"
    /\ UNCHANGED <<rule, val, out, iters>>
    /\ UNCHANGED <<facadeVars, foldVars>>

\* lines 33-40: one marker is rewritten (explored while out is at most MaxOut long)
LoopIterate ==
    /\ pc = "loop"
    /\ Len(out) <= MaxOut
    /\ \E st \in {EvalStep(out)} :
           /\ st.kind = "cont"
           /\ out' = st.out
    /\ iters' = iters + 1
    /\ UNCHANGED <<rule, val, pc>>
    /\ UNCHANGED <<facadeVars, foldVars>>

NextApply == ApplySub \/ LoopBreak \/ LoopError \/ LoopIterate

SpecApply == InitApply /\ [][NextApply]_vars

-----------------------------------------------------------------------------
(* Canonicalizing one operand again and again *)

MaxFoldTok == 3
MaxPasses == 2

FoldTokens ==
    { <<"M", "E", "M", "6", "4">>,
      <<"V", "R", "1">>,
      <<"G", "P", "R">>,
      <<"I", "M", "M">>,
      <<"a">>,
      <<"x">>,
      <<"1">>,
      <<"(", "(", "I", "M", "M", ":">>,
      <<")", ")">>,
      <<"[">>,
      <<"]">>,
      <<"<", "E", "V", "A", "L", ":", "2", "x", "3", ">">>,
      <<"<", "E", "V", "A", "L", ":">> }

FoldInputs == TokStrings(FoldTokens, MaxFoldTok)

InitFold ==
    /\ rules \in {"pmevo", "palmed"}
    /\ \E o \in FoldInputs :
           /\ op = [kind |-> "ok", str |-> o]
           /\ prevOp = [kind |-> "ok", str |-> o]
    /\ passes = 0
    /\ FacadeIdle /\ ApplyIdle

\* every rule of the set is applied in order and returns
FoldReturns ==
    /\ passes < MaxPasses /\ op.kind = "ok"
    /\ \E f \in {Fold(RuleSet(rules), op.str)} :
           /\ f.kind = "ok"
           /\ op' = f
    /\ prevOp' = op
    /\ passes' = passes + 1
    /\ UNCHANGED rules
    /\ UNCHANGED <<facadeVars, applyVars>>

\* a rule's apply raises ValueError
FoldRaises ==
    /\ passes < MaxPasses /\ op.kind = "ok"
    /\ \E f \in {Fold(RuleSet(rules), op.str)} :
           /\ f.kind = "ValueError"
           /\ op' = f
    /\ prevOp' = op
    /\ passes' = passes + 1
    /\ UNCHANGED rules
    /\ UNCHANGED <<facadeVars, applyVars>>

\* a rule's apply never returns
FoldHangs ==
    /\ passes < MaxPasses /\ op.kind = "ok"
    /\ \E f \in {Fold(RuleSet(rules), op.str)} :
           /\ f.kind = "hang"
           /\ op' = f
    /\ prevOp' = op
    /\ passes' = passes + 1
    /\ UNCHANGED rules
    /\ UNCHANGED <<facadeVars, applyVars>>

NextFold == FoldReturns \/ FoldRaises \/ FoldHangs

SpecFold == InitFold /\ [][NextFold]_vars

-----------------------------------------------------------------------------
(* Properties *)

Elems(L) == {L[k] : k \in 1..Len(L)}

HasUnderscore(name) == Find(name, <<"_">>, 0) >= 0

\* positions of the reference instructions whose canonical key is key
Hits(key) ==
    {i \in 1..Len(pmevo_iset) :
        CanonPmevo[pmevo_iset[i]].kind = "ok" /\ CanonPmevo[pmevo_iset[i]].key = key}

\* C1: on one instance, the second call returns the mapping the first call
\* produced, whatever the two argument lists are, and computes nothing again.
C1_SecondCallReturnsFirst ==
    (calls = 2 /\ firstRet.kind = "value" /\ ret.kind = "value")
        => (ret.map = firstRet.map /\ builds = 1)

\* C2: a constructor call with an identifier containing "/" or ".." ends in
\* ArchitectureNotFound, before any filesystem access.
C2_UnsafeArchNotFound ==
    (phase # "new" /\ Unsafe(arch_name))
        => (phase = "raised" /\ exn = "ArchitectureNotFound" /\ fsAccess = 0)

\* C3: the mapping the first call returns has exactly the elements of its
\* argument as keys; an instruction whose canonical key is in the index maps
\* to the instruction stored there, any other one to None; only a failing
\* canonicalization makes the call raise, never a miss; instructions with one
\* name get one result.
C3_MappingIsLookup ==
    /\ (calls = 1 /\ ret.kind = "value") =>
          /\ DOMAIN ret.map = Elems(arg)
          /\ \A t \in Elems(arg) :
                /\ CanonPalmed[t.name].kind = "ok"
                /\ IF CanonPalmed[t.name].key \in DOMAIN index
                   THEN /\ ret.map[t] = index[CanonPalmed[t.name].key]
                        /\ ret.map[t].pos \in Hits(CanonPalmed[t.name].key)
                   ELSE /\ ret.map[t] = NoneInsn
                        /\ Hits(CanonPalmed[t.name].key) = {}
          /\ \A t, u \in Elems(arg) : t.name = u.name => ret.map[t] = ret.map[u]
    /\ (calls = 1 /\ ret.kind = "raised") =>
          \E t \in Elems(arg) : CanonPalmed[t.name].kind = "ValueError"

\* a miss and a hit in the mapping of one first call
C3_Witness ==
    /\ calls = 1 /\ ret.kind = "value"
    /\ \E t, u \in Elems(arg) : ret.map[t] = NoneInsn /\ ret.map[u] # NoneInsn

KeyMovImm == <<<<"M", "O", "V">>, <<<<"G", "P", "R", "8">>, <<"I", "M", "M", "3", "2">>>>>>
KeyMovJoined == <<<<"M", "O", "V">>, <<<<"G", "P", "R", "8", "_", "I", "M", "M", "3", "2">>>>>>
KeyMovSuffix == <<<<"M", "O", "V">>, <<<<"G", "P", "R", "8">>, <<"I", "M", "M", "3", "2", "s", "u", "f", "f", "i", "x">>>>>>

\* the round-trip example happens: the reference list holds
\* MOV_((REG:GPR:G:8))_((IMM:32)) and a call has returned a mapping for the
\* target instruction named MOV_GPR8extra_IMM32suffix
RoundTripCase ==
    /\ ret.kind = "value"
    /\ InsnA \in DOMAIN ret.map
    /\ \E i \in 1..Len(pmevo_iset) : pmevo_iset[i] = Ref_MOV_underscore

\* C4 as stated: both names canonicalize to ("MOV", ("GPR8", "IMM32")) and the
\* target instruction is mapped to the reference instruction.
C4_RoundTripAsStated ==
    RoundTripCase =>
        /\ keys[InsnA] = KeyMovImm
        /\ KeyMovImm \in DOMAIN index
        /\ ret.map[InsnA].name = Ref_MOV_underscore

\* C4 amended: the reference name has one operand (operands are split on
\* commas) and canonicalizes to ("MOV", ("GPR8_IMM32",)); the target name
\* canonicalizes to ("MOV", ("GPR8", "IMM32suffix")); the keys differ, so the
\* target instruction is not mapped to that reference instruction: it maps to
\* None unless another reference instruction has the target's key.
C4_RoundTripAmended ==
    RoundTripCase =>
        /\ keys[InsnA] = KeyMovSuffix
        /\ KeyMovJoined \in DOMAIN index
        /\ index[KeyMovJoined].name = Ref_MOV_underscore
        /\ KeyMovImm \in DOMAIN index =>
              index[KeyMovImm].name # Ref_MOV_underscore
        /\ ret.map[InsnA].name # Ref_MOV_underscore
        /\ Hits(KeyMovSuffix) = {} => ret.map[InsnA] = NoneInsn

C4_Witness == RoundTripCase /\ ret.map[InsnA] = NoneInsn

\* C5: canonicalizing an operand a second time changes nothing, for both rule sets.
C5_FoldIdempotent == passes = 2 => op = prevOp

\* ---- the expansion of <EVAL:...> spans, stated without find and slices ----

\* the text n1xn2x...xnk, k >= 1, of unsigned integers
IsSpanBody(b) ==
    /\ b # <<>>
    /\ \A k \in 1..Len(b) : b[k] \in Digit \cup {"x"}
    /\ b[1] # "x" /\ b[Len(b)] # "x"
    /\ \A k \in 1..(Len(b) - 1) : ~(b[k] = "x" /\ b[k + 1] = "x")

\* position of the first '>' after the marker at i, 0 if there is none
CloseOf(s, i) ==
    IF \E j \in (i + 6)..Len(s) : s[j] = ">"
    THEN Min({j \in (i + 6)..Len(s) : s[j] = ">"})
    ELSE 0

\* a span <EVAL:n1x...xnk> starts at position i
SpanAt(s, i) ==
    /\ IsAt(s, i, EvalMarker)
    /\ CloseOf(s, i) > 0
    /\ IsSpanBody(Sub1(s, i + 6, CloseOf(s, i) - 1))

\* every marker of s starts a span
AllSpans(s) == \A i \in 1..Len(s) : IsAt(s, i, EvalMarker) => SpanAt(s, i)

MarkerCount(s) == Cardinality({i \in 1..Len(s) : IsAt(s, i, EvalMarker)})

\* n1 * ... * nk, read digit by digit
RECURSIVE SpanProduct(_, _, _)
SpanProduct(b, acc, cur) ==
    IF b = <<>> THEN acc * cur
    ELSE IF Head(b) = "x" THEN SpanProduct(Tail(b), acc * cur, 0)
    ELSE SpanProduct(Tail(b), acc, 10 * cur + DigitVal(Head(b)))

\* s from position i on, with its first n spans replaced by their products
RECURSIVE Expanded(_, _, _)
Expanded(s, i, n) ==
    IF i > Len(s) THEN <<>>
    ELSE IF n > 0 /\ SpanAt(s, i)
         THEN Str(SpanProduct(Sub1(s, i + 6, CloseOf(s, i) - 1), 1, 0))
                \o Expanded(s, CloseOf(s, i) + 1, n - 1)
         ELSE <<s[i]>> \o Expanded(s, i + 1, n)

\* C6: when every marker left after the substitution starts a span
\* <EVAL:n1x...xnk>, apply raises nothing, expands the spans one per iteration
\* from left to right, and returns the string with every span replaced by the
\* decimal product and the rest unchanged; <EVAL:32x4> gives 128, <EVAL:7> gives 7.
C6_EvalExpansion ==
    /\ pc \in {"loop", "done", "error"} =>
          LET sub == PatternSub(rule, val)
          IN  AllSpans(sub) =>
                  /\ pc # "error"
                  /\ iters <= MarkerCount(sub)
                  /\ out = Expanded(sub, 1, iters)
                  /\ pc = "done" => iters = MarkerCount(sub)
    /\ (pc = "done" /\ val = <<"<", "E", "V", "A", "L", ":", "3", "2", "x", "4", ">">>) => out = <<"1", "2", "8">>
    /\ (pc = "done" /\ val = <<"<", "E", "V", "A", "L", ":", "7", ">">>) => out = <<"7">>

\* two spans of one string, both expanded
C6_Witness ==
    /\ pc = "done" /\ iters = 2
    /\ val = <<"<", "E", "V", "A", "L", ":", "2", "x", "3", ">", "a", "<", "E", "V", "A", "L", ":", "3", "2", "x", "4", ">">>
    /\ out = <<"6", "a", "1", "2", "8">>

\* C7: a name without underscore canonicalizes to (name, ()) under both
\* decompositions: the index holds the reference instruction under that key,
\* and the key looked up for the target instruction is that key.
C7_NoOperands ==
    /\ builds >= 1 =>
          \A i \in 1..Len(pmevo_iset) :
              ~HasUnderscore(pmevo_iset[i]) =>
                  /\ <<pmevo_iset[i], <<>>>> \in DOMAIN index
                  /\ index[<<pmevo_iset[i], <<>>>>].name = pmevo_iset[i]
    /\ ret.kind = "value" =>
          \A t \in DOMAIN ret.map :
              ~HasUnderscore(t.name) => keys[t] = <<t.name, <<>>>>

\* NOP is mapped to NOP
C7_Witness ==
    /\ ret.kind = "value"
    /\ InsnD \in DOMAIN ret.map
    /\ keys[InsnD] = <<Palmed_NOP, <<>>>>
    /\ ret.map[InsnD].name = Ref_NOP

\* C8: the instruction index is built at most once per instance.
C8_IndexBuiltOnce == builds <= 1

\* C9: when several reference instructions canonicalize to one key, the index
\* holds the last of them under that key, the build raises nothing, and every
\* target instruction with that key is mapped to that last instruction.
C9_LastWriteWins ==
    /\ builds >= 1 =>
          /\ \A i \in 1..Len(pmevo_iset) : CanonPmevo[pmevo_iset[i]].key \in DOMAIN index
          /\ \A k \in DOMAIN index : index[k] = RefInsn(pmevo_iset, Max(Hits(k)))
    /\ ret.kind = "value" =>
          \A t \in DOMAIN ret.map :
              Hits(keys[t]) # {} => ret.map[t] = RefInsn(pmevo_iset, Max(Hits(keys[t])))

\* a target instruction whose key two reference instructions share
C9_Witness ==
    /\ ret.kind = "value"
    /\ \E t \in DOMAIN ret.map :
          /\ Cardinality(Hits(keys[t])) >= 2
          /\ ret.map[t].pos = Max(Hits(keys[t]))

\* C10: the loop of apply ends for every input, and a returned result holds
\* no marker.  An iteration of a run that ends removes the marker it found,
\* so a run that ends makes at most as many iterations as the string had
\* markers after the substitution.
C10_LoopTerminates ==
    /\ pc = "loop" => iters <= MarkerCount(PatternSub(rule, val))
    /\ pc = "done" => MarkerCount(out) = 0

=============================================================================
